---- MODULE Spec2Model ----
(***************************************************************************)
(* Model of cornac.data.text: Vocabulary, CountVectorizer and TextModule.  *)
(*                                                                         *)
(* A document is modelled by the token sequence the tokenizer yields for   *)
(* it (Tokenizer.batch_tokenize is pluggable, so any token sequence can    *)
(* reach the vectorizer).  Python lists are sequences whose Python index   *)
(* i is position i + 1; a dict is a function on its key set; None is the   *)
(* empty tuple, and an attribute that holds None or a list, a dict or an   *)
(* int holds None or the one-element tuple of that value.  A csr_matrix is *)
(* its shape together with, per row, the function from the stored column   *)
(* indices to the stored values.                                           *)
(***************************************************************************)
EXTENDS Integers, Sequences, FiniteSets, TLC

\* ------------------------------------------------------------ bounds
MaxDocs == 1
MaxDocLen == 1
MaxThreshold == 1
MaxListLen == 2
MaxIdsLen == 1
MaxBatch == 1

\* ------------------------------------------------------------ constants
PAD == "<PAD>"
UNK == "<UNK>"
BOS == "<BOS>"
EOS == "<EOS>"
SPECIAL_TOKENS == <<PAD, UNK, BOS, EOS>>

None == <<>>

\* ------------------------------------------------------------ helpers
Range(s) == {s[i] : i \in DOMAIN s}

SeqsUpTo(S, n) == UNION {[1..k -> S] : k \in 0..n}

Max(S) == CHOOSE x \in S : \A y \in S : y <= x

RECURSIVE Flatten(_)
Flatten(seqs) ==
    IF seqs = <<>> THEN <<>> ELSE Head(seqs) \o Flatten(Tail(seqs))

RECURSIVE SumOver(_, _)
SumOver(f, S) ==
    IF S = {} THEN 0
    ELSE LET x == CHOOSE y \in S : TRUE IN f[x] + SumOver(f, S \ {x})

\* the elements of s at the (1-based) positions in P, in order
RECURSIVE Pick(_, _, _)
Pick(s, P, i) ==
    IF i > Len(s) THEN <<>>
    ELSE (IF i \in P THEN <<s[i]>> ELSE <<>>) \o Pick(s, P, i + 1)

\* ------------------------------------------------------------ Vocabulary
\* list.remove(tok): drops the first occurrence only
ListRemove(l, tok) ==
    LET i == CHOOSE k \in DOMAIN l : l[k] = tok /\ \A j \in 1..(k - 1) : l[j] # tok
    IN SubSeq(l, 1, i - 1) \o SubSeq(l, i + 1, Len(l))

AddSpecialToken(l, tok) ==
    <<tok>> \o (IF tok \in Range(l) THEN ListRemove(l, tok) ELSE l)

\* mutant: the reserved tokens inserted in SPECIAL_TOKENS order, not reversed
add_special_tokens_forward(idx2tok) ==
    AddSpecialToken(AddSpecialToken(AddSpecialToken(AddSpecialToken(
        idx2tok, SPECIAL_TOKENS[1]), SPECIAL_TOKENS[2]), SPECIAL_TOKENS[3]), SPECIAL_TOKENS[4])

add_special_tokens(idx2tok) ==
    AddSpecialToken(AddSpecialToken(AddSpecialToken(AddSpecialToken(
        idx2tok, SPECIAL_TOKENS[4]), SPECIAL_TOKENS[3]), SPECIAL_TOKENS[2]), SPECIAL_TOKENS[1])

\* {tok: idx for idx, tok in enumerate(idx2tok)}: the last index of a token wins
build_tok2idx(idx2tok) ==
    [tok \in Range(idx2tok) |-> Max({i \in DOMAIN idx2tok : idx2tok[i] = tok}) - 1]

Vocabulary(idx2tok) ==
    LET l == add_special_tokens(idx2tok)
    IN [idx2tok |-> l, tok2idx |-> build_tok2idx(l)]

size(v) == Len(v.idx2tok)

Get(d, k, default) == IF k \in DOMAIN d THEN d[k] ELSE default

\* mutant: a token without an id mapped to 0
to_idx_pad(v, tokens) == [j \in DOMAIN tokens |-> Get(v.tok2idx, tokens[j], 0)]

to_idx(v, tokens) == [j \in DOMAIN tokens |-> Get(v.tok2idx, tokens[j], 1)]

\* list[i] of Python: a negative i counts from the end of the list
PyIndexOk(l, i) == -Len(l) <= i /\ i < Len(l)

PyGet(l, i) == IF i >= 0 THEN l[i + 1] ELSE l[Len(l) + i + 1]

\* sep.join(tokens), kept as the separator and the parts it joins
Join(sep, tokens) == [sep |-> sep[1], parts |-> tokens]

\* to_text: the outcome [status, error, value]; idx2tok[i] raises IndexError
\* for an i outside -size .. size - 1
to_text(v, indices, sep) ==
    IF \E j \in DOMAIN indices : ~ PyIndexOk(v.idx2tok, indices[j])
    THEN [status |-> "IndexError", error |-> "list index out of range", value |-> None]
    ELSE LET tokens == [j \in DOMAIN indices |-> PyGet(v.idx2tok, indices[j])]
         IN [status |-> "ok", error |-> "",
             value |-> IF sep = None THEN tokens ELSE Join(sep, tokens)]

\* Counter(tokens)
Counter(tokens) ==
    [tok \in Range(tokens) |-> Cardinality({j \in DOMAIN tokens : tokens[j] = tok})]

FirstSeen(tokens, tok) == CHOOSE j \in DOMAIN tokens :
    tokens[j] = tok /\ \A k \in 1..(j - 1) : tokens[k] # tok

\* Counter.most_common(): count-descending stable sort of the insertion order
RECURSIVE MostCommonOf(_, _)
MostCommonOf(tokens, S) ==
    IF S = {} THEN <<>>
    ELSE LET freq == Counter(tokens)
             best == CHOOSE t \in S : \A u \in S \ {t} :
                        \/ freq[t] > freq[u]
                        \/ freq[t] = freq[u] /\ FirstSeen(tokens, t) < FirstSeen(tokens, u)
         IN <<best>> \o MostCommonOf(tokens, S \ {best})

most_common(tokens, n) ==
    LET all == MostCommonOf(tokens, Range(tokens))
    IN IF n = None THEN all ELSE SubSeq(all, 1, IF n[1] < Len(all) THEN n[1] ELSE Len(all))

from_tokens(tokens, max_vocab, min_freq) ==
    LET freq == Counter(tokens)
        mc == most_common(tokens, max_vocab)
    IN Vocabulary(SelectSeq(mc, LAMBDA tok : freq[tok] >= min_freq))

from_sequences(sequences, max_vocab, min_freq) ==
    from_tokens(Flatten(sequences), max_vocab, min_freq)

\* ------------------------------------------------------------ CountVectorizer
\* max_doc_freq: an int k is [isInt |-> TRUE, num |-> k, den |-> 1]; a float
\* num/den is [isInt |-> FALSE, num |-> num, den |-> den] (den a power of two,
\* so the float and the product with a small n_docs are exact)
IntFreq(k) == [isInt |-> TRUE, num |-> k, den |-> 1]
FloatFreq(n, d) == [isInt |-> FALSE, num |-> n, den |-> d]

\* mutant: max_features = 0 let through
InitRaisesBelowZero(max_doc_freq, min_freq, max_features) ==
    \/ max_doc_freq.num < 0
    \/ min_freq < 0
    \/ max_features # None /\ max_features[1] < 0

\* __init__'s argument checks
InitRaises(max_doc_freq, min_freq, max_features) ==
    \/ max_doc_freq.num < 0
    \/ min_freq < 0
    \/ max_features # None /\ max_features[1] <= 0

\* the column indices stored in row r
Indices(X, r) == DOMAIN X.rows[r]

HasNegativeIndex(X) == \E r \in DOMAIN X.rows : \E c \in Indices(X, r) : c < 0

\* np.bincount(X.indices, minlength=X.shape[1]), for non-negative indices: a
\* list whose Python index c is position c + 1
doc_freq(X) ==
    LET n == Max({X.shape[2]} \cup {c + 1 : c \in UNION {Indices(X, r) : r \in DOMAIN X.rows}})
    IN [p \in 1..n |-> Cardinality({r \in DOMAIN X.rows : (p - 1) \in Indices(X, r)})]

\* X[:, kept_indices], kept_indices a sequence of column indices
SelectColumns(X, kept) ==
    [shape |-> <<X.shape[1], Len(kept)>>,
     rows |-> [r \in DOMAIN X.rows |->
                  [j \in {k - 1 : k \in {k \in DOMAIN kept : kept[k] \in Indices(X, r)}}
                      |-> X.rows[r][kept[j + 1]]]]]

\* np.where(mask)[0]: the members of S in ascending order
RECURSIVE Ascending(_)
Ascending(S) ==
    IF S = {} THEN <<>>
    ELSE LET m == CHOOSE x \in S : \A y \in S : x <= y IN <<m>> \o Ascending(S \ {m})

FirstN(s, n) == SubSeq(s, 1, IF n < Len(s) THEN n ELSE Len(s))

\* Outcomes of the vectorizer's methods: [status, error, vocab, sequences, X],
\* vocab being self.vocab as the call leaves it, also when it raises
Returned(v, sequences, X) ==
    [status |-> "ok", error |-> "", vocab |-> v, sequences |-> sequences, X |-> X]

Raised(status, error, v) ==
    [status |-> status, error |-> error, vocab |-> v, sequences |-> None, X |-> None]

\* mutant: the mask inverted, keeping the columns at or above max_doc_count
DocFreqMaskInverted(doc_frequencies, max_doc_count) ==
    {p - 1 : p \in {q \in DOMAIN doc_frequencies :
                        doc_frequencies[q] * max_doc_count.den >= max_doc_count.num}}

\* the mask of the columns to keep: doc_frequencies <= max_doc_count ...
DocFreqMask(doc_frequencies, max_doc_count) ==
    {p - 1 : p \in {q \in DOMAIN doc_frequencies :
                        doc_frequencies[q] * max_doc_count.den <= max_doc_count.num}}

\* ... cut to its first max_features members when it has more
CapMask(self, mask) ==
    IF self.max_features # None /\ Cardinality(mask) > self.max_features[1]
    THEN Range(FirstN(Ascending(mask), self.max_features[1]))
    ELSE mask

\* del self.vocab.idx2tok[index + len(SPECIAL_TOKENS)] for every index not in
\* the mask, highest first, then build_tok2idx()
DeleteTerms(v, dropped) ==
    LET idx2tok == Pick(v.idx2tok,
                        {p \in DOMAIN v.idx2tok : (p - 1 - Len(SPECIAL_TOKENS)) \notin dropped}, 1)
    IN [idx2tok |-> idx2tok, tok2idx |-> build_tok2idx(idx2tok)]

\* mutant: the matrix returned without its columns being selected
KeepAllColumns(v, sequences, X, kept_indices) ==
    IF Len(kept_indices) = 0
    THEN Raised("ValueError", "no terms remain", v)
    ELSE Returned(v, sequences, X)

KeepColumns(v, sequences, X, kept_indices) ==
    IF Len(kept_indices) = 0
    THEN Raised("ValueError", "no terms remain", v)
    ELSE Returned(v, sequences, SelectColumns(X, kept_indices))

ApplyMask(self, sequences, X, n_terms, mask) ==
    KeepColumns(DeleteTerms(self.vocab, (0..(n_terms - 1)) \ mask), sequences, X, Ascending(mask))

\* _limit_features (sequences is handed through to the outcome)
limit_features(self, sequences, X, max_doc_count) ==
    IF max_doc_count.num >= X.shape[1] * max_doc_count.den
    THEN Returned(self.vocab, sequences, X)
    ELSE IF HasNegativeIndex(X)
    THEN Raised("ValueError", "bincount of a negative index", self.vocab)
    ELSE ApplyMask(self, sequences, X, Len(doc_freq(X)),
                   CapMask(self, DocFreqMask(doc_freq(X), max_doc_count)))

\* one row of _count: the feature_counter of a sequence
feature_counter(v, sequence) ==
    LET known == {j \in DOMAIN sequence : sequence[j] \in DOMAIN v.tok2idx}
        idx(j) == v.tok2idx[sequence[j]] - Len(SPECIAL_TOKENS)
    IN [c \in {idx(j) : j \in known} |-> Cardinality({j \in known : idx(j) = c})]

count(v, sequences) ==
    [shape |-> <<Len(sequences), size(v) - Len(SPECIAL_TOKENS)>>,
     rows |-> [r \in DOMAIN sequences |-> feature_counter(v, sequences[r])]]

\* if self.binary: X.data.fill(1)
Binarize(self, X) ==
    IF self.binary
    THEN [X EXCEPT !.rows = [r \in DOMAIN X.rows |-> [c \in Indices(X, r) |-> 1]]]
    ELSE X

\* max_doc_count = max_doc_freq if it is an int, else max_doc_freq * n_docs
MaxDocCount(max_doc_freq, n_docs) ==
    IF max_doc_freq.isInt THEN [num |-> max_doc_freq.num, den |-> 1]
    ELSE [num |-> max_doc_freq.num * n_docs, den |-> max_doc_freq.den]

\* mutant: pruning applied to a given vocabulary as well
LimitAlways(self, fixed_vocab, sequences, X) ==
    limit_features(self, sequences, X, MaxDocCount(self.max_doc_freq, X.shape[1]))

\* fit_transform once self.vocab is set and X is counted
Limit(self, fixed_vocab, sequences, X) ==
    IF fixed_vocab
    THEN Returned(self.vocab, sequences, X)
    ELSE limit_features(self, sequences, X, MaxDocCount(self.max_doc_freq, X.shape[1]))

CountAndLimit(self, fixed_vocab, sequences) ==
    Limit(self, fixed_vocab, sequences, Binarize(self, count(self.vocab, sequences)))

fit_transform(self, sequences) ==
    IF self.vocab = None
    THEN CountAndLimit([self EXCEPT !.vocab = from_sequences(sequences, None, self.min_freq)],
                       FALSE, sequences)
    ELSE CountAndLimit(self, TRUE, sequences)

\* transform: without a vocabulary, _count fails on self.vocab.tok2idx
transform(self, sequences) ==
    IF self.vocab = None
    THEN Raised("AttributeError", "vocab is None", self.vocab)
    ELSE Returned(self.vocab, sequences, Binarize(self, count(self.vocab, sequences)))

\* ------------------------------------------------------------ TextModule
\* id_text is None or <<dict>>, sequences is None or <<list>>
TextModule(id_text, v, max_vocab, max_doc_freq, min_freq) ==
    [id_text |-> id_text, has_id_text |-> TRUE, vocab |-> v, max_vocab |-> max_vocab,
     max_doc_freq |-> max_doc_freq, min_freq |-> min_freq,
     sequences |-> None, counts |-> None]

\* the loop of _build_text over mapped_id = from .. len(global_id_map) - 1:
\* [ok, ordered_texts, id_text]; a raw id without text stops it (KeyError)
\* with the entries read so far already deleted
RECURSIVE OrderTexts(_, _, _, _)
OrderTexts(id_text, mapped2raw, from, ordered_texts) ==
    IF from \notin DOMAIN mapped2raw
    THEN [ok |-> TRUE, ordered_texts |-> ordered_texts, id_text |-> id_text]
    ELSE LET raw_id == mapped2raw[from]
         IN IF raw_id \notin DOMAIN id_text
            THEN [ok |-> FALSE, ordered_texts |-> ordered_texts, id_text |-> id_text]
            ELSE OrderTexts([r \in (DOMAIN id_text) \ {raw_id} |-> id_text[r]],
                            mapped2raw, from + 1, Append(ordered_texts, id_text[raw_id]))

\* _build_text from the vectorizer's outcome r on: the fields the module keeps
StoreText(gone, r) ==
    IF r.status # "ok"
    THEN [status |-> r.status, error |-> r.error, self |-> gone]
    ELSE [status |-> "ok", error |-> "",
          self |-> [gone EXCEPT
              !.counts = r.X,
              !.vocab = r.vocab,
              !.sequences = <<[i \in DOMAIN r.sequences |-> to_idx(r.vocab, r.sequences[i])]>>]]

\* _build_text after del self._id_text: the vectorizer is constructed and fitted
Vectorize(self, gone, ordered_texts) ==
    IF InitRaises(self.max_doc_freq, self.min_freq, self.max_vocab)
    THEN [status |-> "ValueError", error |-> "CountVectorizer arguments", self |-> gone]
    ELSE StoreText(gone, fit_transform(
             [vocab |-> self.vocab, max_doc_freq |-> self.max_doc_freq,
              min_freq |-> self.min_freq, max_features |-> self.max_vocab,
              binary |-> FALSE], ordered_texts))

\* _build_text after its loop, whose outcome is o
AfterLoop(self, o) ==
    IF ~ o.ok
    THEN [status |-> "KeyError", error |-> "id_text[raw_id]",
          self |-> [self EXCEPT !.id_text = <<o.id_text>>]]
    ELSE Vectorize(self, [self EXCEPT !.id_text = None, !.has_id_text = FALSE], o.ordered_texts)

\* mapped2raw = {mapped_id: raw_id for raw_id, mapped_id in global_id_map.items()}
Mapped2Raw(global_id_map) ==
    [m \in {global_id_map[r] : r \in DOMAIN global_id_map} |->
        CHOOSE r \in DOMAIN global_id_map : global_id_map[r] = m]

\* _build_text: the outcome [status, error, self]
build_text(self, global_id_map) ==
    IF ~ self.has_id_text
    THEN [status |-> "AttributeError", error |-> "_id_text", self |-> self]
    ELSE IF self.id_text = None
    THEN [status |-> "ok", error |-> "", self |-> self]
    ELSE AfterLoop(self, OrderTexts(self.id_text[1], Mapped2Raw(global_id_map), 0, <<>>))

\* Outcomes of the batch accessors: [status, error, value]
Failed(status, error) == [status |-> status, error |-> error, value |-> None]

\* one row of seq_mat: the first max_length ids of the sequence, zeros after
SeqRow(idx_seq, max_length) ==
    [j \in 1..max_length |-> IF j <= Len(idx_seq) THEN idx_seq[j] ELSE 0]

\* seq_mat, a dense matrix: its shape and its rows
SeqMat(self, batch_ids, max_length) ==
    [status |-> "ok", error |-> "",
     value |-> [shape |-> <<Len(batch_ids), max_length>>,
                rows |-> [k \in DOMAIN batch_ids |->
                             SeqRow(PyGet(self.sequences[1], batch_ids[k]), max_length)]]]

\* an id that indexes neither the stored sequences nor the rows of counts
BadId(n, batch_ids) == \E k \in DOMAIN batch_ids : ~ (-n <= batch_ids[k] /\ batch_ids[k] < n)

\* batch_seq once self.sequences is known to be set; max() of no lengths
\* raises ValueError
batch_seq_stored(self, batch_ids, max_length) ==
    IF BadId(Len(self.sequences[1]), batch_ids)
    THEN Failed("IndexError", "list index out of range")
    ELSE IF max_length # None
    THEN SeqMat(self, batch_ids, max_length[1])
    ELSE IF batch_ids = <<>>
    THEN Failed("ValueError", "max() arg is an empty sequence")
    ELSE SeqMat(self, batch_ids,
                Max({Len(PyGet(self.sequences[1], batch_ids[k])) : k \in DOMAIN batch_ids}))

\* mutant: no check of self.sequences, None is subscripted
batch_seq_unguarded(self, batch_ids, max_length) ==
    IF self.sequences = None
    THEN Failed("TypeError", "'NoneType' object is not subscriptable")
    ELSE batch_seq_stored(self, batch_ids, max_length)

\* batch_seq
batch_seq(self, batch_ids, max_length) ==
    IF self.sequences = None
    THEN Failed("ValueError", "self.sequences is required but None!")
    ELSE batch_seq_stored(self, batch_ids, max_length)

\* mutant: the rows of counts taken in their own order, whatever the ids
BowRowsInOrder(self, batch_ids) ==
    [shape |-> <<Len(batch_ids), self.counts.shape[2]>>,
     rows |-> [k \in DOMAIN batch_ids |-> self.counts.rows[k]]]

\* self.counts[batch_ids]: a new matrix of the rows batch_ids names
BowRows(self, batch_ids) ==
    [shape |-> <<Len(batch_ids), self.counts.shape[2]>>,
     rows |-> [k \in DOMAIN batch_ids |-> PyGet(self.counts.rows, batch_ids[k])]]

\* batch_bow
batch_bow(self, batch_ids, binary) ==
    IF self.counts = None
    THEN Failed("ValueError", "self.counts is required but None!")
    ELSE IF BadId(self.counts.shape[1], batch_ids)
    THEN Failed("IndexError", "index out of bounds")
    ELSE [status |-> "ok", error |-> "",
          value |-> Binarize([binary |-> binary], BowRows(self, batch_ids))]

\* ------------------------------------------------------------ inputs
DocTokens == {"a", "b", UNK}
ListTokens == {"a", "b", PAD, UNK, BOS, EOS}
Docs == SeqsUpTo(DocTokens, MaxDocLen)
\* the corpus of the unit tests: 'a b c', 'b c d d', 'c b e c f'
TestDocs == << <<"a", "b", "c">>, <<"b", "c", "d", "d">>, <<"c", "b", "e", "c", "f">> >>
Corpora == SeqsUpTo(Docs, MaxDocs) \cup {TestDocs}
TokenLists == SeqsUpTo(ListTokens, MaxListLen)
\* the ids handed to to_text: below -size, -1, and 0 up to the largest size
Ids == {-(Len(SPECIAL_TOKENS) + MaxListLen + 1), -1} \cup (0..(Len(SPECIAL_TOKENS) + MaxListLen))
IdLists == SeqsUpTo(Ids, MaxIdsLen)
Seps == {None, <<" ">>}
\* the token lists handed to to_idx
IdxTokens == SeqsUpTo(ListTokens, MaxIdsLen)
\* the token lists of the vocabularies handed to a vectorizer or a module
GivenTokens == {"a", UNK}
GivenLists == SeqsUpTo(GivenTokens, MaxDocLen)
\* ints up to MaxThreshold and the floats k/2 up to MaxThreshold (1.0 is the default)
MaxDocFreqs ==
    {IntFreq(k) : k \in 0..MaxThreshold} \cup {FloatFreq(k, 2) : k \in 0..(2 * MaxThreshold)}
MinFreqs == 0..MaxThreshold
MaxFeatures == {None} \cup {<<k>> : k \in 1..MaxThreshold}
\* the arguments handed to CountVectorizer(...): the above and values below 0
\* (and max_features = 0)
CtorMaxDocFreqs == MaxDocFreqs \cup {IntFreq(-1), FloatFreq(-1, 2)}
CtorMinFreqs == (-1)..MaxThreshold
CtorMaxFeatures == {None} \cup {<<k>> : k \in (-1)..MaxThreshold}
RawIds == {"u1", "u2"}
TextTokens == {"a", "b"}
Texts == SeqsUpTo(TextTokens, MaxDocLen)
\* the module of the unit tests: its id_text, its id map, and the batches and
\* the max_length its tests ask for
TestIdText == [r \in {"u1", "u2", "u3"} |->
                 IF r = "u1" THEN TestDocs[1] ELSE IF r = "u2" THEN TestDocs[2] ELSE TestDocs[3]]
TestIdMap == [r \in {"u1", "u2", "u3"} |-> IF r = "u1" THEN 0 ELSE IF r = "u2" THEN 1 ELSE 2]
TestBatches == {<<2, 1>>, <<0, 2>>}
TestMaxLength == <<4>>
IdTexts == {None} \cup {<<t>> : t \in {TestIdText} \cup UNION {[S -> Texts] : S \in SUBSET RawIds}}
\* the dense ids and the lists of them handed to the batch accessors
DenseIds == 0..(Cardinality(RawIds) - 1)
BatchIds == SeqsUpTo(DenseIds, MaxBatch) \cup TestBatches
MaxLengths == {None, TestMaxLength} \cup {<<k>> : k \in 0..MaxDocLen}
\* the maps of some raw ids onto the dense ids 0 .. N-1
GlobalIdMaps ==
    {TestIdMap} \cup UNION {{g \in [S -> 0..(Cardinality(S) - 1)] :
                               \A r1, r2 \in S : g[r1] = g[r2] => r1 = r2} : S \in SUBSET RawIds}

\* ------------------------------------------------------------ state
VARIABLES
    vocab,        \* a Vocabulary object held by the caller, or None
    file,         \* the pickled idx2tok written by Vocabulary.save, or None
    vectorizer,   \* a CountVectorizer object (its fields), or None
    vocab_arg,    \* the vocab argument the vectorizer was constructed with
    module,       \* a TextModule object (its fields), or None
    ret           \* the outcome of the call in progress, None between calls

vars == <<vocab, file, vectorizer, vocab_arg, module, ret>>

CountVectorizer(v, max_doc_freq, min_freq, max_features, binary) ==
    [vocab |-> v, max_doc_freq |-> max_doc_freq, min_freq |-> min_freq,
     max_features |-> max_features, binary |-> binary]

InitVocabulary ==
    /\ vocab \in {Vocabulary(l) : l \in TokenLists}
    /\ file = None
    /\ vectorizer = None
    /\ vocab_arg = None
    /\ module = None
    /\ ret = None

InitCountVectorizer ==
    /\ vocab = None
    /\ file = None
    /\ vocab_arg \in {None} \cup {Vocabulary(l) : l \in GivenLists}
    /\ \E mdf \in MaxDocFreqs, mf \in MinFreqs, k \in MaxFeatures, b \in BOOLEAN :
          /\ ~ InitRaises(mdf, mf, k)
          /\ vectorizer = CountVectorizer(vocab_arg, mdf, mf, k, b)
    /\ module = None
    /\ ret = None

InitTextModule ==
    /\ vocab = None
    /\ file = None
    /\ vectorizer = None
    /\ vocab_arg \in {None, Vocabulary(<<"a">>)}
    /\ \E t \in IdTexts, mdf \in MaxDocFreqs, mf \in MinFreqs, k \in MaxFeatures :
          module = TextModule(t, vocab_arg, k, mdf, mf)
    /\ ret = None

\* nothing constructed yet
InitNone ==
    /\ vocab = None
    /\ file = None
    /\ vectorizer = None
    /\ vocab_arg = None
    /\ module = None
    /\ ret = None

Init == InitVocabulary \/ InitCountVectorizer \/ InitTextModule \/ InitNone

\* CountVectorizer(vocab=v, max_doc_freq=.., min_freq=.., max_features=.., binary=..):
\* when __init__ raises, the caller gets no object
Construct ==
    /\ vocab = None /\ file = None /\ vectorizer = None /\ module = None /\ ret = None
    /\ \E v \in {None} \cup {Vocabulary(l) : l \in GivenLists},
          mdf \in CtorMaxDocFreqs, mf \in CtorMinFreqs, k \in CtorMaxFeatures, b \in BOOLEAN :
          LET args == CountVectorizer(v, mdf, mf, k, b)
          IN IF InitRaises(mdf, mf, k)
             THEN /\ ret' = [op |-> "CountVectorizer", args |-> args,
                             status |-> "ValueError", error |-> "invalid argument"]
                  /\ UNCHANGED <<vectorizer, vocab_arg>>
             ELSE /\ ret' = [op |-> "CountVectorizer", args |-> args,
                             status |-> "ok", error |-> ""]
                  /\ vectorizer' = args
                  /\ vocab_arg' = v
    /\ UNCHANGED <<vocab, file, module>>

\* Vocabulary.save / Vocabulary.load
Save ==
    /\ vocab # None
    /\ file' = vocab.idx2tok
    /\ UNCHANGED <<vocab, vectorizer, vocab_arg, module, ret>>

Load ==
    /\ file # None
    /\ vocab' = Vocabulary(file)
    /\ UNCHANGED <<file, vectorizer, vocab_arg, module, ret>>

\* Vocabulary.to_idx / Vocabulary.to_text
ToIdx ==
    /\ vocab # None /\ ret = None
    /\ \E tokens \in IdxTokens :
          ret' = [op |-> "to_idx", tokens |-> tokens, pre |-> vocab,
                  status |-> "ok", error |-> "", value |-> to_idx(vocab, tokens)]
    /\ UNCHANGED <<vocab, file, vectorizer, vocab_arg, module>>

ToText ==
    /\ vocab # None /\ ret = None
    /\ \E indices \in IdLists, sep \in Seps :
          LET r == to_text(vocab, indices, sep)
          IN ret' = [op |-> "to_text", indices |-> indices, sep |-> sep, pre |-> vocab,
                     status |-> r.status, error |-> r.error, value |-> r.value]
    /\ UNCHANGED <<vocab, file, vectorizer, vocab_arg, module>>

Outcome(op, docs, r) ==
    [op |-> op, docs |-> docs, pre |-> vectorizer.vocab, status |-> r.status,
     error |-> r.error, sequences |-> r.sequences, X |-> r.X]

FitTransform ==
    /\ vectorizer # None /\ ret = None
    /\ \E docs \in Corpora :
          LET r == fit_transform(vectorizer, docs)
          IN /\ vectorizer' = [vectorizer EXCEPT !.vocab = r.vocab]
             /\ ret' = Outcome("fit_transform", docs, r)
    /\ UNCHANGED <<vocab, file, vocab_arg, module>>

\* fit: fit_transform, the sequences and the matrix dropped
Fit ==
    /\ vectorizer # None /\ ret = None
    /\ \E docs \in Corpora :
          LET r == fit_transform(vectorizer, docs)
          IN /\ vectorizer' = [vectorizer EXCEPT !.vocab = r.vocab]
             /\ ret' = Outcome("fit", docs, [r EXCEPT !.sequences = None, !.X = None])
    /\ UNCHANGED <<vocab, file, vocab_arg, module>>

Transform ==
    /\ vectorizer # None /\ ret = None
    /\ \E docs \in Corpora :
          LET r == transform(vectorizer, docs)
          IN /\ vectorizer' = [vectorizer EXCEPT !.vocab = r.vocab]
             /\ ret' = Outcome("transform", docs, r)
    /\ UNCHANGED <<vocab, file, vocab_arg, module>>

\* the caller's assignment vectorizer.binary = b
SetBinary ==
    /\ vectorizer # None /\ ret = None
    /\ vectorizer' = [vectorizer EXCEPT !.binary = ~ @]
    /\ UNCHANGED <<vocab, file, vocab_arg, module, ret>>

\* TextModule.build
Build ==
    /\ module # None /\ ret = None
    /\ \E global_id_map \in GlobalIdMaps :
          LET r == build_text(module, global_id_map)
          IN /\ module' = r.self
             /\ ret' = [op |-> "build", global_id_map |-> global_id_map, pre |-> module,
                        status |-> r.status, error |-> r.error]
    /\ UNCHANGED <<vocab, file, vectorizer, vocab_arg>>

\* TextModule.batch_seq / TextModule.batch_bow
BatchSeq ==
    /\ module # None /\ ret = None
    /\ \E batch_ids \in BatchIds, max_length \in MaxLengths :
          LET r == batch_seq(module, batch_ids, max_length)
          IN ret' = [op |-> "batch_seq", batch_ids |-> batch_ids, max_length |-> max_length,
                     pre |-> module.sequences,
                     status |-> r.status, error |-> r.error, value |-> r.value]
    /\ UNCHANGED <<vocab, file, vectorizer, vocab_arg, module>>

BatchBow ==
    /\ module # None /\ ret = None
    /\ \E batch_ids \in BatchIds, binary \in BOOLEAN :
          LET r == batch_bow(module, batch_ids, binary)
          IN ret' = [op |-> "batch_bow", batch_ids |-> batch_ids, binary |-> binary,
                     pre |-> module.counts,
                     status |-> r.status, error |-> r.error, value |-> r.value]
    /\ UNCHANGED <<vocab, file, vectorizer, vocab_arg, module>>

\* the caller is done with the outcome of the call
Return ==
    /\ ret # None
    /\ ret' = None
    /\ UNCHANGED <<vocab, file, vectorizer, vocab_arg, module>>

Next ==
    \/ Construct
    \/ Save
    \/ Load
    \/ ToIdx
    \/ ToText
    \/ FitTransform
    \/ Fit
    \/ Transform
    \/ SetBinary
    \/ Build
    \/ BatchSeq
    \/ BatchBow
    \/ Return

Spec == Init /\ [][Next]_vars

\* ------------------------------------------------------------ vocabulary of the claims
Reserved == {PAD, UNK, BOS, EOS}

\* the non-reserved part of a vocabulary: idx2tok[4:]
Terms(v) == SubSeq(v.idx2tok, 5, Len(v.idx2tok))

NoRepeat(l) == \A i, j \in DOMAIN l : l[i] = l[j] => i = j

Positions(docs) == UNION {{<<i, j>> : j \in DOMAIN docs[i]} : i \in DOMAIN docs}

CorpusTokens(docs) == {docs[p[1]][p[2]] : p \in Positions(docs)}

CorpusFreq(docs, t) == Cardinality({p \in Positions(docs) : docs[p[1]][p[2]] = t})

DocumentFreq(docs, t) == Cardinality({i \in DOMAIN docs : \E j \in DOMAIN docs[i] : docs[i][j] = t})

\* t occurs in the corpus before u does
SeenBefore(docs, t, u) ==
    \E p \in Positions(docs) :
        /\ docs[p[1]][p[2]] = t
        /\ \A q \in Positions(docs) :
              docs[q[1]][q[2]] = u => (p[1] < q[1] \/ (p[1] = q[1] /\ p[2] < q[2]))

\* t comes before u in frequency-descending order, ties by first occurrence
Precedes(docs, t, u) ==
    \/ CorpusFreq(docs, t) > CorpusFreq(docs, u)
    \/ CorpusFreq(docs, t) = CorpusFreq(docs, u) /\ SeenBefore(docs, t, u)

InFrequencyOrder(docs, l) == \A i, j \in DOMAIN l : i < j => Precedes(docs, l[i], l[j])

\* the document frequency of t exceeds max_doc_count
TooCommon(self, docs, t) ==
    IF self.max_doc_freq.isInt
    THEN DocumentFreq(docs, t) > self.max_doc_freq.num
    ELSE DocumentFreq(docs, t) * self.max_doc_freq.den > self.max_doc_freq.num * Len(docs)

\* the non-reserved terms that pass the min_freq and document-frequency filters
Survivors(self, docs) ==
    {t \in CorpusTokens(docs) \ Reserved :
        CorpusFreq(docs, t) >= self.min_freq /\ ~ TooCommon(self, docs, t)}

Cell(X, r, c) == IF c \in Indices(X, r) THEN X.rows[r][c] ELSE 0

RowSum(X, r) == SumOver(X.rows[r], Indices(X, r))

Called(ops) == ret # None /\ ret.op \in ops

\* a call of fit_transform or fit that found no vocabulary and built one
FreshFit == Called({"fit_transform", "fit"}) /\ ret.pre = None

\* ------------------------------------------------------------ claims

\* C1: when fit_transform builds a fresh vocabulary with max_features = k and
\* more than k terms survive the min_freq and document-frequency filters, the
\* final vocabulary keeps exactly the first k survivors in frequency-descending
\* order and the returned matrix has exactly k columns.
C1_MaxFeaturesKeepsFirstK ==
    (/\ FreshFit /\ ret.op = "fit_transform" /\ ret.status = "ok"
     /\ vectorizer.max_features # None
     /\ Cardinality(Survivors(vectorizer, ret.docs)) > vectorizer.max_features[1])
    => LET l == Terms(vectorizer.vocab)
           S == Survivors(vectorizer, ret.docs)
       IN /\ Len(l) = vectorizer.max_features[1]
          /\ NoRepeat(l)
          /\ Range(l) \subseteq S
          /\ InFrequencyOrder(ret.docs, l)
          /\ \A t \in Range(l), u \in S \ Range(l) : Precedes(ret.docs, t, u)
          /\ ret.X.shape[2] = vectorizer.max_features[1]

\* C2: whenever fit_transform builds a fresh vocabulary and no non-reserved
\* term survives, the call raises ValueError; it never returns normally with a
\* zero-column matrix.
C2_NoTermsRaises ==
    (FreshFit /\ Terms(vectorizer.vocab) = <<>>) => ret.status = "ValueError"

C4_ColumnsAreTerms ==
    (Called({"fit_transform", "transform"}) /\ ret.status = "ok")
    => LET v == vectorizer.vocab
           X == ret.X
           n == size(v) - 4
       IN /\ X.shape = <<Len(ret.docs), n>>
          /\ \A r \in DOMAIN X.rows :
                /\ Indices(X, r) \subseteq 0..(n - 1)
                /\ \A c \in 0..(n - 1) :
                      LET occ == Cardinality({j \in DOMAIN ret.docs[r] :
                                                 ret.docs[r][j] = v.idx2tok[c + 5]})
                      IN Cell(X, r, c) = IF vectorizer.binary /\ occ > 0 THEN 1 ELSE occ

\* a vocabulary table is a bijection
Bijective(v) ==
    v # None =>
       /\ NoRepeat(v.idx2tok)
       /\ size(v) = 4 + Cardinality(Range(v.idx2tok) \ Reserved)
       /\ DOMAIN v.tok2idx = Range(v.idx2tok)
       /\ \A i \in DOMAIN v.idx2tok : v.tok2idx[v.idx2tok[i]] = i - 1

\* C5: in every reachable Vocabulary state the table is a bijection: idx2tok
\* has no repeated entry, size is 4 + the number of distinct non-reserved
\* tokens, and tok2idx[idx2tok[i]] = i for every i.
C5_VocabularyBijection ==
    /\ Bijective(vocab)
    /\ Bijective(vocab_arg)
    /\ vectorizer # None => Bijective(vectorizer.vocab)
    /\ module # None => Bijective(module.vocab)

FirstFour(v) == v # None => SubSeq(v.idx2tok, 1, 4) = <<"<PAD>", "<UNK>", "<BOS>", "<EOS>">>

\* C6: in every reachable Vocabulary state the first four entries of idx2tok
\* are PAD, UNK, BOS, EOS in that order: after construction from any token
\* list, after pruning by fit_transform, and after load.
C6_ReservedFirst ==
    /\ FirstFour(vocab)
    /\ FirstFour(vocab_arg)
    /\ vectorizer # None => FirstFour(vectorizer.vocab)
    /\ module # None => FirstFour(module.vocab)

\* a vocabulary built from a list that repeats a reserved token, saved
C6_Witness ==
    /\ vocab # None /\ file = vocab.idx2tok
    /\ \E i \in DOMAIN vocab.idx2tok : i > 4 /\ vocab.idx2tok[i] \in Reserved

\* C7: transform on a vectorizer holding a vocabulary leaves the vocabulary
\* unchanged, and with binary off each row's sum is the number of the
\* document's tokens that are non-reserved vocabulary terms.
C7_TransformCountsTermsOnly ==
    (Called({"transform"}) /\ ret.pre # None)
    => /\ vectorizer.vocab = ret.pre
       /\ ret.status = "ok"
       /\ ~ vectorizer.binary =>
             \A r \in DOMAIN ret.X.rows :
                RowSum(ret.X, r) =
                   Cardinality({j \in DOMAIN ret.docs[r] :
                       ret.docs[r][j] \in Range(vectorizer.vocab.idx2tok) \ Reserved})

\* C8: fit_transform on a vectorizer that was given a vocabulary at
\* construction never changes that vocabulary, raises nothing, and returns a
\* matrix of vocab.size - 4 columns, whatever the corpus and the thresholds.
C8_GivenVocabularyFixed ==
    (vectorizer # None /\ vocab_arg # None)
    => /\ vectorizer.vocab = vocab_arg
       /\ Called({"fit_transform", "fit"}) => ret.status = "ok"
       /\ Called({"fit_transform"}) => ret.X.shape[2] = size(vocab_arg) - 4

\* fit_transform returned on a given vocabulary one of whose terms is in every
\* document, under max_doc_freq = 0
C8_Witness ==
    /\ vectorizer # None /\ vocab_arg # None
    /\ Called({"fit_transform"})
    /\ vectorizer.max_doc_freq = IntFreq(0)
    /\ ret.docs # <<>>
    /\ \A i \in DOMAIN ret.docs : "a" \in Range(ret.docs[i])
    /\ "a" \in Range(vocab_arg.idx2tok)

\* C9: on a vectorizer that holds a vocabulary, fit_transform(D) and
\* transform(D) return equal matrices and leave the vocabulary unchanged; and
\* the matrix the fitting fit_transform(D) returned is the one transform(D)
\* returns afterwards.
C9_FitTransformEqualsTransform ==
    /\ (Called({"fit_transform"}) /\ ret.pre # None)
       => /\ ret.status = "ok"
          /\ vectorizer.vocab = ret.pre
          /\ ret.X = transform(vectorizer, ret.docs).X
    /\ (Called({"transform"}) /\ ret.pre # None)
       => /\ ret.status = "ok"
          /\ vectorizer.vocab = ret.pre
          /\ ret.X = fit_transform(vectorizer, ret.docs).X
    /\ (Called({"fit_transform"}) /\ ret.pre = None /\ ret.status = "ok")
       => ret.X = transform(vectorizer, ret.docs).X

\* a fitting fit_transform that pruned a term returned, binary on
C9_Witness ==
    /\ FreshFit /\ ret.op = "fit_transform" /\ ret.status = "ok"
    /\ vectorizer.binary
    /\ Len(Terms(vectorizer.vocab)) >= 2
    /\ \E t \in CorpusTokens(ret.docs) \ Reserved : TooCommon(vectorizer, ret.docs, t)

\* C10: when the global id map holds a raw id for which id_text has no entry,
\* build completes without error (the id is skipped).
C10_MissingTextSkipped ==
    (/\ Called({"build"}) /\ ret.pre.has_id_text /\ ret.pre.id_text # None
     /\ \E raw_id \in DOMAIN ret.global_id_map : raw_id \notin DOMAIN ret.pre.id_text[1])
    => ret.status = "ok"

\* a build of a module that holds an id_text
BuiltWithText == Called({"build"}) /\ ret.pre.has_id_text /\ ret.pre.id_text # None

\* the text of the raw id the map of the build sends to dense id i
HasText(i) == Mapped2Raw(ret.global_id_map)[i] \in DOMAIN ret.pre.id_text[1]
TextOf(i) == ret.pre.id_text[1][Mapped2Raw(ret.global_id_map)[i]]

\* the dense ids 0 .. N-1 of the build's map that have text
WithText ==
    {i \in 0..(Cardinality(DOMAIN ret.global_id_map) - 1) : HasText(i)}

\* C11: after build(global_id_map) on a module with id_text (the vectorizer
\* finding terms), sequences and counts are stored, len(sequences) and the
\* number of rows of counts both equal the number of dense ids with text, and
\* for every such dense id i, sequences[i] and row i of counts are derived
\* from the text of the raw id the map sends to i.
C11_BuildAlignsText ==
    (BuiltWithText /\ ret.status # "ValueError")
    => /\ module.sequences # None /\ module.counts # None
       /\ Len(module.sequences[1]) = Cardinality(WithText)
       /\ module.counts.shape[1] = Cardinality(WithText)
       /\ Len(module.counts.rows) = Cardinality(WithText)
       /\ \A i \in WithText :
             /\ i < Len(module.sequences[1])
             /\ module.sequences[1][i + 1] = to_idx(module.vocab, TextOf(i))
             /\ module.counts.rows[i + 1] = feature_counter(module.vocab, TextOf(i))

\* C12: after a build that stored sequences, sequences[i] has one id per
\* token of document i, in order; each id is the final tok2idx id of its
\* token, or 1 when the final vocabulary does not hold the token; every id is
\* in [0, vocab.size); and counts[i][c] is the number of positions j with
\* sequences[i][j] = c + 4, for every row i and column c.
C12_SequencesMatchVocabAndCounts ==
    (BuiltWithText /\ ret.status = "ok")
    => /\ Len(module.sequences[1]) = module.counts.shape[1]
       /\ \A i \in DOMAIN module.sequences[1] :
             LET seq == module.sequences[1][i]
                 doc == TextOf(i - 1)
             IN /\ Len(seq) = Len(doc)
                /\ \A j \in DOMAIN seq :
                      /\ seq[j] = IF doc[j] \in Range(module.vocab.idx2tok)
                                  THEN module.vocab.tok2idx[doc[j]] ELSE 1
                      /\ seq[j] \in 0..(size(module.vocab) - 1)
                /\ \A c \in 0..(module.counts.shape[2] - 1) :
                      Cell(module.counts, i, c) =
                         Cardinality({j \in DOMAIN seq : seq[j] = c + 4})

\* a build that pruned a token of its texts, kept another, and counted a
\* token twice in one document
C12_Witness ==
    /\ BuiltWithText /\ ret.status = "ok" /\ ret.pre.vocab = None
    /\ Terms(module.vocab) # <<>>
    /\ \E i \in DOMAIN module.sequences[1] :
          \E j \in DOMAIN module.sequences[1][i] :
             /\ module.sequences[1][i][j] = 1
             /\ TextOf(i - 1)[j] \notin Range(module.vocab.idx2tok)
    /\ \E i \in DOMAIN module.counts.rows :
          \E c \in Indices(module.counts, i) : module.counts.rows[i][c] = 2

\* every id of the list is a dense id of a stored sequence or row
ValidIds(n, batch_ids) == \A k \in DOMAIN batch_ids : batch_ids[k] \in 0..(n - 1)

Longest(S) == IF S = {} THEN 0 ELSE Max(S)

\* C13: on a built module, for any list of valid dense ids and any
\* max_length, batch_seq returns a matrix of len(ids) rows and L columns, L
\* being max_length when given and else the length of the longest requested
\* sequence; row k holds the first min(L, len) ids of sequences[ids[k]] in
\* order and 0 in every remaining position; the stored sequences are
\* unchanged.
C13_BatchSeqPadsAndTruncates ==
    (/\ Called({"batch_seq"}) /\ module.sequences # None
     /\ ValidIds(Len(module.sequences[1]), ret.batch_ids))
    => /\ ret.status = "ok"
       /\ module.sequences = ret.pre
       /\ LET ids == ret.batch_ids
              L == IF ret.max_length # None THEN ret.max_length[1]
                   ELSE Longest({Len(module.sequences[1][ids[k] + 1]) : k \in DOMAIN ids})
          IN /\ ret.value.shape = <<Len(ids), L>>
             /\ DOMAIN ret.value.rows = DOMAIN ids
             /\ \A k \in DOMAIN ids :
                   /\ DOMAIN ret.value.rows[k] = 1..L
                   /\ \A j \in 1..L :
                         ret.value.rows[k][j] =
                            IF j <= Len(module.sequences[1][ids[k] + 1])
                            THEN module.sequences[1][ids[k] + 1][j] ELSE 0

\* C14: on a built module, for any list of valid dense ids, row k of
\* batch_bow(ids) equals row ids[k] of the stored count matrix; with
\* binary=True every nonzero cell is 1 and every zero cell stays zero, the set
\* of nonzero positions being the same as without binary.
C14_BatchBowRows ==
    (/\ Called({"batch_bow"}) /\ module.counts # None
     /\ ValidIds(module.counts.shape[1], ret.batch_ids))
    => /\ ret.status = "ok"
       /\ module.counts = ret.pre
       /\ ret.value.shape = <<Len(ret.batch_ids), module.counts.shape[2]>>
       /\ DOMAIN ret.value.rows = DOMAIN ret.batch_ids
       /\ \A k \in DOMAIN ret.batch_ids :
             LET r == ret.batch_ids[k] + 1
             IN /\ Indices(ret.value, k) = Indices(module.counts, r)
                /\ \A c \in 0..(module.counts.shape[2] - 1) :
                      Cell(ret.value, k, c) =
                         IF ret.binary /\ Cell(module.counts, r, c) # 0
                         THEN 1 ELSE Cell(module.counts, r, c)

\* batch_bow with binary=True returned rows out of their stored order, one of
\* them holding a count of 2
C14_Witness ==
    /\ Called({"batch_bow"}) /\ ret.status = "ok" /\ ret.binary
    /\ \E k \in DOMAIN ret.batch_ids :
          /\ ret.batch_ids[k] + 1 # k
          /\ \E c \in Indices(module.counts, ret.batch_ids[k] + 1) :
                module.counts.rows[ret.batch_ids[k] + 1][c] = 2

\* C15: whenever sequences (counts) are unset, before build or after a build
\* on a module without id_text, batch_seq (batch_bow) raises the state error
\* ValueError and returns no value, whatever the ids.
C15_UnbuiltAccessRaises ==
    /\ (Called({"batch_seq"}) /\ module.sequences = None)
       => /\ ret.status = "ValueError"
          /\ ret.error = "self.sequences is required but None!"
          /\ ret.value = None
    /\ (Called({"batch_bow"}) /\ module.counts = None)
       => /\ ret.status = "ValueError"
          /\ ret.error = "self.counts is required but None!"
          /\ ret.value = None

\* batch_seq was called with a non-empty id list on a module without id_text
C15_Witness ==
    /\ Called({"batch_seq"}) /\ module.sequences = None
    /\ module.has_id_text /\ module.id_text = None
    /\ ret.batch_ids # <<>>
    /\ ret.status = "ValueError"

\* the ids of a list that lie in [0, size)
InRange(v, indices) == \A j \in DOMAIN indices : indices[j] \in 0..(size(v) - 1)

\* C16: to_text raises the range error whenever some id lies outside
\* [0, size), every negative id included, and returns tokens only when all
\* ids are in [0, size).
C16_ToTextRangeError ==
    Called({"to_text"}) => (ret.status = "ok" <=> InRange(vocab, ret.indices))

\* C17: for any vocabulary and any ids all in [0, size),
\* to_idx(to_text(ids, sep=None)) = ids; and to_idx maps every token absent
\* from the vocabulary to 1 and leaves the table as it was.
C17_RoundTrip ==
    /\ (Called({"to_text"}) /\ ret.sep = None /\ InRange(vocab, ret.indices))
       => /\ ret.status = "ok"
          /\ to_idx(vocab, ret.value) = ret.indices
    /\ Called({"to_idx"})
       => /\ vocab = ret.pre
          /\ \A j \in DOMAIN ret.tokens :
                ret.tokens[j] \notin Range(vocab.idx2tok) => ret.value[j] = 1

\* the arguments __init__ rejects
BadArguments(a) ==
    \/ a.max_doc_freq.num < 0
    \/ a.min_freq < 0
    \/ a.max_features # None /\ a.max_features[1] <= 0

\* C18: constructing a CountVectorizer with max_doc_freq < 0, min_freq < 0, or
\* max_features given and <= 0 raises ValueError and yields no vectorizer;
\* every other combination constructs without error; hence no vectorizer
\* with such parameters ever exists.
C18_ConstructorRejects ==
    /\ Called({"CountVectorizer"})
       => /\ ret.status = (IF BadArguments(ret.args) THEN "ValueError" ELSE "ok")
          /\ vectorizer = (IF BadArguments(ret.args) THEN None ELSE ret.args)
    /\ vectorizer # None => ~ BadArguments(vectorizer)

\* construction with max_features = 0 and nothing else wrong was refused
C18_Witness ==
    /\ Called({"CountVectorizer"}) /\ ret.status = "ValueError"
    /\ ret.args.max_features = <<0>>
    /\ ret.args.max_doc_freq.num >= 0 /\ ret.args.min_freq >= 0
    /\ vectorizer = None

\* C19: when fit_transform raises the no-terms-remain error, the vectorizer's
\* vocabulary is left unset, as it was before the call.
C19_FailedFitLeavesVocabUnset ==
    (FreshFit /\ ret.status = "ValueError" /\ ret.error = "no terms remain")
    => vectorizer.vocab = None

====
